---- MODULE Spec2Model ----
(***************************************************************************)
(* Model of src/components/WorldMap.jsx: the effect of the WorldMap        *)
(* component (scene, camera, drawPolygon, the GeoJSON load pass, the       *)
(* travel arc, the animation loop, the resize handler and the cleanup),    *)
(* together with the host that drives it (window, frame scheduler, time).  *)
(*                                                                         *)
(* JavaScript values are records [t, n, a]: t is "null", "num" or "arr",   *)
(* n the number of a "num", a the elements of an "arr".  Real numbers are  *)
(* exact fractions <<numerator, denominator>> in lowest terms.             *)
(***************************************************************************)
EXTENDS Integers, Sequences, FiniteSets

VARIABLES
    land,             \* the imported dataset (line 3), never written
    ring,             \* the argument of a direct drawPolygon call
    refCurrent,       \* ref.current is the host element (TRUE) or null
    winW, winH,       \* window.innerWidth, window.innerHeight
    dpr,              \* window.devicePixelRatio
    resizePending,    \* a resize event is queued and not yet dispatched
    now,              \* the host's clock, in seconds
    phase,            \* "unmounted", "skipped", "failed", "mounted", "torn"
    lastOp,           \* the operation of the component that ran last
    scene,            \* the children of the scene, in order
    mapGroup,         \* the children of mapGroup, in order
    pixelRatio,       \* the renderer's pixel ratio
    rendererSize,     \* the renderer's size, <<width, height>>
    canvasAttached,   \* renderer.domElement is a child of the host element
    rendererDisposed, \* renderer.dispose() has run
    camera,           \* the orthographic camera's fields
    projMatrix,       \* the bounds the projection matrix was computed from
    arcPts, arcProg,  \* the samples of the arc and their progress values
    time,             \* arcMat.uniforms.time.value
    clock,            \* the THREE.Clock
    raf,              \* the variable raf (0 while undefined)
    rafPending,       \* the handles of the pending animation frame requests
    nextHandle,       \* the handle the next requestAnimationFrame returns
    renderCount,      \* the number of renderer.render calls
    listener          \* resize is registered on the window

vars == <<land, ring, refCurrent, winW, winH, dpr, resizePending, now, phase,
          lastOp, scene, mapGroup, pixelRatio, rendererSize, canvasAttached,
          rendererDisposed, camera, projMatrix, arcPts, arcProg, time, clock,
          raf, rafPending, nextHandle, renderCount, listener>>

(***************************************************************************)
(* Bounds of the model.                                                    *)
(***************************************************************************)
MaxRingLen == 3
MaxFeatures == 2
MaxPolys == 2
MaxDim == 2
MaxStep == 3
MaxFrames == 3

(***************************************************************************)
(* Exact arithmetic.                                                       *)
(***************************************************************************)
Abs(n) == IF n < 0 THEN -n ELSE n

RECURSIVE GCD(_, _)
GCD(a, b) == IF b = 0 THEN a ELSE GCD(b, a % b)

Norm(n, d) ==
    LET g == GCD(Abs(n), Abs(d))
        s == IF d < 0 THEN -1 ELSE 1
    IN  <<(s * n) \div g, (s * d) \div g>>

Whole(n) == <<n, 1>>
FAdd(p, q) == Norm(p[1] * q[2] + q[1] * p[2], p[2] * q[2])
FSub(p, q) == Norm(p[1] * q[2] - q[1] * p[2], p[2] * q[2])
FMul(p, q) == Norm(p[1] * q[1], p[2] * q[2])
FDiv(p, q) == Norm(p[1] * q[2], p[2] * q[1])
FLess(p, q) == p[1] * q[2] < q[1] * p[2]
\* x % 1 of JavaScript, for x >= 0
FMod1(p) == Norm(p[1] % p[2], p[2])

\* the literals 0.5 and 0.25
Half == <<1, 2>>
Quarter == <<1, 4>>

(***************************************************************************)
(* JavaScript values.                                                      *)
(***************************************************************************)
Null == [t |-> "null", n |-> 0, a |-> <<>>]
Num(k) == [t |-> "num", n |-> k, a |-> <<>>]
Arr(s) == [t |-> "arr", n |-> 0, a |-> s]

IsArray(v) == v.t = "arr"
Truthy(v) == v.t = "arr" \/ (v.t = "num" /\ v.n # 0)
\* v[0]: undefined (Null here) unless v is an array with a first element
Index0(v) == IF v.t = "arr" /\ Len(v.a) > 0 THEN v.a[1] ELSE Null

(***************************************************************************)
(* drawPolygon (lines 43-100).                                             *)
(***************************************************************************)
project(p) == <<p.a[1].n, p.a[2].n>>

\* the test of lines 71 and 89
ValidPoint(p) == IsArray(p) /\ Len(p.a) >= 2

\* THREE.Shape: a path with a current point (the origin at first) and curves
NewShape == [currentPoint |-> <<0, 0>>, curves |-> <<>>]
moveTo(s, v) == [s EXCEPT !.currentPoint = v]
lineTo(s, v) ==
    [currentPoint |-> v,
     curves |-> Append(s.curves, [v1 |-> s.currentPoint, v2 |-> v])]

\* ring.forEach((p, i) => ...) of lines 70-75; i is one more than the code's
RECURSIVE ShapeLoop(_, _, _)
ShapeLoop(r, i, s) ==
    IF i > Len(r) THEN s
    ELSE IF ~ValidPoint(r[i]) THEN ShapeLoop(r, i + 1, s)
    ELSE ShapeLoop(r, i + 1,
                   IF i = 1 THEN moveTo(s, project(r[i]))
                   ELSE lineTo(s, project(r[i])))

\* the points a shape's geometry is built from: each curve's ends, in order
ShapePoints(s) ==
    IF Len(s.curves) = 0 THEN <<>>
    ELSE <<s.curves[1].v1>> \o [k \in 1..Len(s.curves) |-> s.curves[k].v2]

\* a mutant of FilterValid: stops at the first invalid entry
RECURSIVE FilterUntilInvalid(_)
FilterUntilInvalid(r) ==
    IF Len(r) = 0 \/ ~ValidPoint(r[1]) THEN <<>>
    ELSE <<r[1]>> \o FilterUntilInvalid(Tail(r))

\* ring.filter(...) of line 89
FilterValid(r) == SelectSeq(r, ValidPoint)

\* lines 88-93
OutlinePts(r) ==
    LET f == FilterValid(r)
    IN  [k \in 1..Len(f) |-> <<project(f[k])[1], project(f[k])[2], 2>>]

Mesh(mat, shape, pos, scale) ==
    [type |-> "Mesh", mat |-> mat, curves |-> shape.curves, pts |-> <<>>,
     position |-> pos, scale |-> scale]
Line(mat, pts) ==
    [type |-> "Line", mat |-> mat, curves |-> <<>>, pts |-> pts,
     position |-> <<0, 0, 0>>, scale |-> <<100, 100, 100>>]

\* drawPolygon called with r on a group with children g: the children after;
\* scales are in hundredths
drawPolygon(g, r) ==
    IF ~IsArray(r) \/ Len(r.a) < 3 THEN g
    ELSE LET shape == ShapeLoop(r.a, 1, NewShape)
             shadow == Mesh("shadowMat", shape, <<0, -4, -2>>, <<103, 103, 100>>)
             landMesh == Mesh("landMat", shape, <<0, 0, 0>>, <<100, 100, 100>>)
             pts == OutlinePts(r.a)
             g2 == Append(Append(g, shadow), landMesh)
         IN  IF Len(pts) > 1 THEN Append(g2, Line("coastMat", pts)) ELSE g2

(***************************************************************************)
(* Input rings: every sequence of at most MaxRingLen entries, each a       *)
(* pair, a triple, a one-component array, a number or null.                *)
(***************************************************************************)
PA == Arr(<<Num(1), Num(2)>>)
PB == Arr(<<Num(3), Num(4)>>)
PC == Arr(<<Num(5), Num(6), Num(7)>>)
PShort == Arr(<<Num(8)>>)
PointSet == {PA, PB, PC, PShort, Num(9), Null}

SeqsUpTo(S, n) == UNION {[1..k -> S] : k \in 0..n}
RingSet == {Arr(s) : s \in SeqsUpTo(PointSet, MaxRingLen)}

(***************************************************************************)
(* The load pass (lines 103-120).  A dataset is [isNull, features]; the    *)
(* features are Null or an array of features; a feature is                 *)
(* [isNull, geometry], a geometry [present, type, coordinates].  A pass    *)
(* yields the children of mapGroup and whether a TypeError was thrown.     *)
(***************************************************************************)
Geometry(ty, c) == [present |-> TRUE, type |-> ty, coordinates |-> c]
NoGeometry == [present |-> FALSE, type |-> "", coordinates |-> Null]
Feature(g) == [isNull |-> FALSE, geometry |-> g]
NullFeature == [isNull |-> TRUE, geometry |-> NoGeometry]
Land(fs) == [isNull |-> FALSE, features |-> [t |-> "arr", a |-> fs]]
LandNoFeatures == [isNull |-> FALSE, features |-> [t |-> "null", a |-> <<>>]]
LandNull == [isNull |-> TRUE, features |-> [t |-> "null", a |-> <<>>]]

\* g.coordinates.forEach(poly => ...) of lines 113-117
RECURSIVE PolyLoop(_, _, _)
PolyLoop(ps, i, g) ==
    IF i > Len(ps) THEN g
    ELSE PolyLoop(ps, i + 1,
                  IF IsArray(ps[i]) /\ Truthy(Index0(ps[i]))
                  THEN drawPolygon(g, Index0(ps[i]))
                  ELSE g)

\* the callback of land.features.forEach, lines 104-119
LoadFeature(st, f) ==
    IF f.isNull THEN [st EXCEPT !.threw = TRUE]
    ELSE LET g == f.geometry IN
        IF ~g.present \/ ~Truthy(g.coordinates) THEN st
        ELSE IF g.type = "Polygon"
             THEN [st EXCEPT !.group = drawPolygon(st.group, Index0(g.coordinates))]
        ELSE IF g.type = "MultiPolygon"
             THEN IF IsArray(g.coordinates)
                  THEN [st EXCEPT !.group = PolyLoop(g.coordinates.a, 1, st.group)]
                  ELSE [st EXCEPT !.threw = TRUE]
        ELSE st

RECURSIVE FeatureLoop(_, _, _)
FeatureLoop(fs, i, st) ==
    IF i > Len(fs) \/ st.threw THEN st
    ELSE FeatureLoop(fs, i + 1, LoadFeature(st, fs[i]))

LoadPass(l) ==
    IF l.isNull \/ l.features.t # "arr" \/ Len(l.features.a) = 0
    THEN [group |-> <<>>, threw |-> FALSE]
    ELSE FeatureLoop(l.features.a, 1, [group |-> <<>>, threw |-> FALSE])

(***************************************************************************)
(* The travel arc (lines 123-143).  A sample is [x, yBase, lift, z]: its   *)
(* height is yBase + 18 * sin(lift * pi).                                  *)
(***************************************************************************)
arcSteps == 160
ArcZ == 6
ArcStart == <<10, 45>>
ArcEnd == <<120, 25>>

\* THREE.MathUtils.lerp
lerp(x, y, t) == FAdd(FMul(FSub(Whole(1), t), Whole(x)), FMul(t, Whole(y)))

\* the loop condition of line 130, and a mutant that stops one step early
ArcLoopGoesOnEarlyStop(i) == i < arcSteps
ArcLoopGoesOn(i) == i <= arcSteps

\* the values i takes in the loop of lines 130-140
ArcIndices == {i \in 0..(arcSteps + 1) : \A j \in 0..i : ArcLoopGoesOn(j)}

ArcSample(i) ==
    LET t == FDiv(Whole(i), Whole(arcSteps))
    IN  [x |-> lerp(ArcStart[1], ArcEnd[1], t),
         yBase |-> lerp(ArcStart[2], ArcEnd[2], t),
         lift |-> t, z |-> ArcZ]

\* arcPts and arcProg after the loop: one entry per pass, in order
Arc ==
    [pts |-> [k \in 1..Cardinality(ArcIndices) |-> ArcSample(k - 1)],
     prog |-> [k \in 1..Cardinality(ArcIndices) |->
                  FDiv(Whole(k - 1), Whole(arcSteps))]]

(***************************************************************************)
(* Renderer, camera, clock and frame scheduler.                            *)
(***************************************************************************)
WORLD_WIDTH == 360
WORLD_HEIGHT == 180
CameraNear == -100
CameraFar == 100
CameraZ == 10
MaxPixelRatio == 2

Min(a, b) == IF a < b THEN a ELSE b

\* lines 26-36: new THREE.OrthographicCamera(...) for a w x h window
MountCamera(w, h) ==
    LET aspect == FDiv(Whole(w), Whole(h))
    IN  [left |-> FMul(FMul(Whole(-WORLD_WIDTH), aspect), Half),
         right |-> FMul(FMul(Whole(WORLD_WIDTH), aspect), Half),
         top |-> FMul(Whole(WORLD_HEIGHT), Half),
         bottom |-> FMul(Whole(-WORLD_HEIGHT), Half),
         near |-> CameraNear, far |-> CameraFar, z |-> CameraZ]

\* a mutant of ResizeCamera: divides the height by the width
ResizeCameraInverted(c, w, h) ==
    LET a == FDiv(Whole(h), Whole(w))
    IN  [c EXCEPT !.left = FMul(FMul(Whole(-WORLD_WIDTH), a), Half),
                  !.right = FMul(FMul(Whole(WORLD_WIDTH), a), Half)]

\* a mutant of ResizeCamera: rescales the vertical bounds as well
ResizeCameraVertical(c, w, h) ==
    LET a == FDiv(Whole(w), Whole(h))
    IN  [c EXCEPT !.left = FMul(FMul(Whole(-WORLD_WIDTH), a), Half),
                  !.right = FMul(FMul(Whole(WORLD_WIDTH), a), Half),
                  !.top = FMul(FMul(Whole(WORLD_HEIGHT), a), Half),
                  !.bottom = FMul(FMul(Whole(-WORLD_HEIGHT), a), Half)]

\* lines 183-185: the camera after resize ran in a w x h window
ResizeCamera(c, w, h) ==
    LET a == FDiv(Whole(w), Whole(h))
    IN  [c EXCEPT !.left = FMul(FMul(Whole(-WORLD_WIDTH), a), Half),
                  !.right = FMul(FMul(Whole(WORLD_WIDTH), a), Half)]

\* camera.updateProjectionMatrix(): the matrix is a function of the bounds
ProjectionOf(c) ==
    [left |-> c.left, right |-> c.right, top |-> c.top, bottom |-> c.bottom,
     near |-> c.near, far |-> c.far]

NoCamera ==
    [left |-> Whole(0), right |-> Whole(0), top |-> Whole(0),
     bottom |-> Whole(0), near |-> 0, far |-> 0, z |-> 0]

\* new THREE.Clock() of line 171, and clock.getElapsedTime() at host time t
NewClock == [running |-> FALSE, oldTime |-> 0, elapsedTime |-> 0]
GetElapsedTime(c, t) ==
    IF ~c.running THEN [running |-> TRUE, oldTime |-> t, elapsedTime |-> 0]
    ELSE [running |-> TRUE, oldTime |-> t,
          elapsedTime |-> c.elapsedTime + (t - c.oldTime)]

\* a mutant of TimeUniform: the product is not wrapped
TimeUniformUnwrapped(elapsed) == FMul(Whole(elapsed), Quarter)

\* line 175: (clock.getElapsedTime() * 0.25) % 1
TimeUniform(elapsed) == FMod1(FMul(Whole(elapsed), Quarter))

(***************************************************************************)
(* Input datasets.                                                         *)
(***************************************************************************)
Triangle == Arr(<<PA, PB, PC>>)
LoadRings == {Triangle, Arr(<<PA, Null, PB>>), Arr(<<PA, PB>>), Num(9)}
PolySet == {Null, Arr(<<>>)} \cup {Arr(<<r>>) : r \in LoadRings}
FeatureSet ==
    {NullFeature, Feature(NoGeometry), Feature(Geometry("Point", PA))}
    \cup {Feature(Geometry("Polygon", c)) :
            c \in {Null, Num(9)} \cup {Arr(<<r>>) : r \in LoadRings}}
    \cup {Feature(Geometry("MultiPolygon", c)) :
            c \in {Num(9)} \cup {Arr(s) : s \in SeqsUpTo(PolySet, MaxPolys)}}
LandSet ==
    {LandNull, LandNoFeatures}
    \cup {Land(fs) : fs \in SeqsUpTo(FeatureSet, MaxFeatures)}

GoodFeature == Feature(Geometry("Polygon", Arr(<<Triangle>>)))
LifeLandSet ==
    {LandNull, Land(<<GoodFeature>>),
     Land(<<Feature(Geometry("MultiPolygon", Num(9))), GoodFeature>>)}
DprSet == {1, 3}
Dims == 1..MaxDim

(***************************************************************************)
(* States and steps.                                                       *)
(***************************************************************************)
Constructed ==
    /\ resizePending = FALSE
    /\ now = 0
    /\ phase = "unmounted"
    /\ lastOp = "none"
    /\ scene = <<>>
    /\ mapGroup = <<>>
    /\ pixelRatio = 0
    /\ rendererSize = <<0, 0>>
    /\ canvasAttached = FALSE
    /\ rendererDisposed = FALSE
    /\ camera = NoCamera
    /\ projMatrix = ProjectionOf(NoCamera)
    /\ arcPts = <<>>
    /\ arcProg = <<>>
    /\ time = Whole(0)
    /\ clock = NewClock
    /\ raf = 0
    /\ rafPending = {}
    /\ nextHandle = 1
    /\ renderCount = 0
    /\ listener = FALSE

Init ==
    /\ Constructed
    /\ ring = Null
    /\ land \in LifeLandSet
    /\ refCurrent \in BOOLEAN
    /\ winW \in Dims
    /\ winH \in Dims
    /\ dpr \in DprSet

hostVars == <<land, ring, winW, winH, dpr, resizePending, now>>

\* a mutant of AnimateBody: the handle of the new request is not kept in raf
AnimateBodyHandleLost(pending) ==
    LET c == GetElapsedTime(clock, now') IN
    /\ clock' = c
    /\ time' = TimeUniform(c.elapsedTime)
    /\ renderCount' = renderCount + 1
    /\ raf' = raf
    /\ rafPending' = pending \cup {nextHandle}
    /\ nextHandle' = nextHandle + 1

\* the body of animate (lines 174-178) run at host time now'
AnimateBody(pending) ==
    LET c == GetElapsedTime(clock, now') IN
    /\ clock' = c
    /\ time' = TimeUniform(c.elapsedTime)
    /\ renderCount' = renderCount + 1
    /\ raf' = nextHandle
    /\ rafPending' = pending \cup {nextHandle}
    /\ nextHandle' = nextHandle + 1

\* the effect (lines 8-198) up to its return
Mount ==
    /\ phase = "unmounted"
    /\ lastOp' = "mount"
    /\ UNCHANGED <<hostVars, refCurrent, rendererDisposed>>
    /\ IF ~refCurrent
       THEN /\ phase' = "skipped"
            /\ UNCHANGED <<scene, mapGroup, pixelRatio, rendererSize,
                           canvasAttached, camera, projMatrix, arcPts, arcProg,
                           time, clock, raf, rafPending, nextHandle,
                           renderCount, listener>>
       ELSE LET loaded == LoadPass(land) IN
            /\ pixelRatio' = Min(dpr, MaxPixelRatio)
            /\ rendererSize' = <<winW, winH>>
            /\ canvasAttached' = TRUE
            /\ camera' = MountCamera(winW, winH)
            /\ projMatrix' = ProjectionOf(MountCamera(winW, winH))
            /\ mapGroup' = loaded.group
            /\ IF loaded.threw
               THEN /\ phase' = "failed"
                    /\ scene' = <<"mapGroup">>
                    /\ UNCHANGED <<arcPts, arcProg, time, clock, raf,
                                   rafPending, nextHandle, renderCount,
                                   listener>>
               ELSE /\ phase' = "mounted"
                    /\ scene' = <<"mapGroup", "arcLine">>
                    /\ arcPts' = Arc.pts
                    /\ arcProg' = Arc.prog
                    /\ AnimateBody(rafPending)
                    /\ listener' = TRUE

\* the host fires a pending animation frame request, d seconds after the
\* frame before: animate runs
Tick ==
    /\ nextHandle <= MaxFrames
    /\ \E d \in 0..MaxStep : now' = now + d
    /\ \E h \in rafPending : AnimateBody(rafPending \ {h})
    /\ lastOp' = "animate"
    /\ UNCHANGED <<land, ring, winW, winH, dpr, resizePending, refCurrent,
                   phase, scene, mapGroup, pixelRatio, rendererSize,
                   canvasAttached, rendererDisposed, camera, projMatrix,
                   arcPts, arcProg, listener>>

\* the host dispatches the queued resize event: resize (lines 182-188) runs
\* if it is registered
ResizeEvent ==
    /\ resizePending
    /\ resizePending' = FALSE
    /\ IF listener
       THEN /\ camera' = ResizeCamera(camera, winW, winH)
            /\ projMatrix' = ProjectionOf(ResizeCamera(camera, winW, winH))
            /\ rendererSize' = <<winW, winH>>
            /\ lastOp' = "resize"
       ELSE UNCHANGED <<camera, projMatrix, rendererSize, lastOp>>
    /\ UNCHANGED <<land, ring, winW, winH, dpr, now, refCurrent, phase, scene,
                   mapGroup, pixelRatio, canvasAttached, rendererDisposed,
                   arcPts, arcProg, time, clock, raf, rafPending, nextHandle,
                   renderCount, listener>>

\* the cleanup returned by the effect (lines 192-197)
Teardown ==
    /\ phase = "mounted"
    /\ phase' = "torn"
    /\ rafPending' = rafPending \ {raf}
    /\ listener' = FALSE
    /\ rendererDisposed' = TRUE
    /\ canvasAttached' = IF refCurrent THEN FALSE ELSE canvasAttached
    /\ lastOp' = "cleanup"
    /\ UNCHANGED <<hostVars, refCurrent, scene, mapGroup, pixelRatio,
                   rendererSize, camera, projMatrix, arcPts, arcProg, time,
                   clock, raf, nextHandle, renderCount>>

\* the user resizes the window; the host queues a resize event
WindowChange ==
    /\ \E w \in Dims, h \in Dims :
        /\ <<w, h>> # <<winW, winH>>
        /\ winW' = w
        /\ winH' = h
    /\ resizePending' = TRUE
    /\ UNCHANGED <<lastOp, land, ring, dpr, now, refCurrent, phase, scene, mapGroup,
                   pixelRatio, rendererSize, canvasAttached, rendererDisposed,
                   camera, projMatrix, arcPts, arcProg, time, clock, raf,
                   rafPending, nextHandle, renderCount, listener>>

\* React clears the ref of the host element it is about to remove
DetachRef ==
    /\ phase = "mounted"
    /\ refCurrent
    /\ refCurrent' = FALSE
    /\ UNCHANGED <<lastOp, hostVars, phase, scene, mapGroup, pixelRatio, rendererSize,
                   canvasAttached, rendererDisposed, camera, projMatrix,
                   arcPts, arcProg, time, clock, raf, rafPending, nextHandle,
                   renderCount, listener>>

Next ==
    \/ Mount
    \/ Tick
    \/ ResizeEvent
    \/ Teardown
    \/ WindowChange
    \/ DetachRef

Spec == Init /\ [][Next]_vars

(***************************************************************************)
(* The load pass over every bounded dataset.                               *)
(***************************************************************************)
InitLoad ==
    /\ Constructed
    /\ ring = Null
    /\ land \in LandSet
    /\ refCurrent = TRUE
    /\ winW = 1
    /\ winH = 1
    /\ dpr = 1

NextLoad == Mount

SpecLoad == InitLoad /\ [][NextLoad]_vars

(***************************************************************************)
(* drawPolygon on every bounded ring.                                      *)
(***************************************************************************)
InitDraw ==
    /\ Constructed
    /\ ring \in RingSet
    /\ land = LandNull
    /\ refCurrent = TRUE
    /\ winW = 1
    /\ winH = 1
    /\ dpr = 1

DrawRing ==
    /\ lastOp = "none"
    /\ mapGroup' = drawPolygon(mapGroup, ring)
    /\ lastOp' = "drawPolygon"
    /\ UNCHANGED <<hostVars, refCurrent, phase, scene, pixelRatio,
                   rendererSize, canvasAttached, rendererDisposed, camera,
                   projMatrix, arcPts, arcProg, time, clock, raf, rafPending,
                   nextHandle, renderCount, listener>>

NextDraw == DrawRing

SpecDraw == InitDraw /\ [][NextDraw]_vars

(***************************************************************************)
(* Properties of drawPolygon, under SpecDraw.                              *)
(***************************************************************************)
Drawn == lastOp = "drawPolygon"
RingEntries == IF IsArray(ring) THEN ring.a ELSE <<>>
ValidIndices == {i \in 1..Len(RingEntries) : ValidPoint(RingEntries[i])}
\* the k-th valid entry of the ring, in ring order
KthValid(k) ==
    RingEntries[CHOOSE i \in ValidIndices :
                    Cardinality({j \in ValidIndices : j <= i}) = k]
Outlines == SelectSeq(mapGroup, LAMBDA m : m.type = "Line")
Meshes == SelectSeq(mapGroup, LAMBDA m : m.type = "Mesh")
\* the outline goes through exactly the valid entries, in ring order
OutlineIsValidEntries(o) ==
    /\ Len(o.pts) = Cardinality(ValidIndices)
    /\ \A k \in 1..Len(o.pts) :
        o.pts[k] = <<KthValid(k).a[1].n, KthValid(k).a[2].n, 2>>

\* C1: a ring with fewer than 3 valid points adds no primitive to the map
\* group: no shadow mesh, no fill mesh, no outline.
C1_NoPrimitiveUnderThreeValid ==
    (Drawn /\ Cardinality(ValidIndices) < 3) => mapGroup = <<>>

\* C4 as stated: in a ring with at least 3 entries every valid entry appears
\* in the outline, in ring order, and no invalid entry does.
C4_EveryValidEntryInOutline ==
    (Drawn /\ Len(RingEntries) >= 3) =>
        /\ \A k \in 1..Len(Outlines) : OutlineIsValidEntries(Outlines[k])
        /\ Cardinality(ValidIndices) >= 1 => Len(Outlines) = 1

\* C4 as amended: in a ring with at least 3 entries of which at least 2 are
\* valid, the outline goes through exactly the valid entries, in ring order,
\* and the invalid ones are left out; with fewer than 2 valid entries no
\* outline is added at all.
C4_OutlineSkipsInvalidEntries ==
    (Drawn /\ Len(RingEntries) >= 3) =>
        IF Cardinality(ValidIndices) >= 2
        THEN Len(Outlines) = 1 /\ OutlineIsValidEntries(Outlines[1])
        ELSE Len(Outlines) = 0

C4_Witness ==
    /\ Drawn
    /\ ring = Arr(<<PA, Null, PB>>)
    /\ Len(Outlines) = 1
    /\ Outlines[1].pts = <<<<1, 2, 2>>, <<3, 4, 2>>>>

\* C8: the path of the fill and shadow shape goes through exactly the valid
\* pairs of the ring, in ring order, starting at the first valid pair: it
\* holds no point that is not in the outline.
C8_ShapeThroughOutlinePoints ==
    Drawn =>
        \A k \in 1..Len(Meshes) :
            LET sp == ShapePoints(Meshes[k]) IN
            sp # <<>> =>
                /\ Len(sp) = Cardinality(ValidIndices)
                /\ \A j \in 1..Len(sp) :
                    sp[j] = <<KthValid(j).a[1].n, KthValid(j).a[2].n>>

(***************************************************************************)
(* Properties of the load pass, under SpecLoad.                            *)
(***************************************************************************)
\* the features whose outer ring is a Polygon ring of at least 3 valid points
DrawablePolygons ==
    IF land.isNull \/ land.features.t # "arr" THEN {}
    ELSE {i \in 1..Len(land.features.a) :
            LET f == land.features.a[i] IN
            /\ ~f.isNull
            /\ f.geometry.present
            /\ f.geometry.type = "Polygon"
            /\ IsArray(Index0(f.geometry.coordinates))
            /\ Len(SelectSeq(Index0(f.geometry.coordinates).a, ValidPoint)) >= 3}

\* C2: whatever the dataset, the load pass raises no error: the effect runs
\* to its end, every well-formed feature is drawn, the arc is created, the
\* animation is started and the resize listener is registered.
C2_LoadNeverRaises ==
    phase # "unmounted" =>
        /\ phase = "mounted"
        /\ Len(SelectSeq(mapGroup, LAMBDA m : m.mat = "landMat"))
              >= Cardinality(DrawablePolygons)
        /\ scene = <<"mapGroup", "arcLine">>
        /\ rafPending # {}
        /\ listener

(***************************************************************************)
(* Properties of the life cycle, under Spec.                               *)
(***************************************************************************)
\* C3: once the cleanup has run, no frame request is pending, resize is not
\* registered, the renderer is disposed and the canvas is no longer a child
\* of the host element; so animate and resize cannot run again.
C3_TeardownReleasesAll ==
    phase = "torn" =>
        /\ rafPending = {}
        /\ ~listener
        /\ rendererDisposed
        /\ ~canvasAttached

\* a resize event is dispatched to the registered handler
ResizeHandled == resizePending /\ ~resizePending' /\ listener

\* C5: the resize handler leaves top = 90 and bottom = -90, sets left to
\* -180 * a and right to 180 * a, a being innerWidth / innerHeight at the
\* event, and changes nothing but the camera's horizontal bounds, the
\* projection matrix and the renderer's size.
C5_ResizeKeepsVerticalBounds ==
    [][ResizeHandled =>
          /\ camera'.top = Whole(90)
          /\ camera'.bottom = Whole(-90)
          /\ camera'.left[1] * winH = -180 * winW * camera'.left[2]
          /\ camera'.right[1] * winH = 180 * winW * camera'.right[2]
          /\ camera' = [camera EXCEPT !.left = camera'.left,
                                      !.right = camera'.right]
          /\ UNCHANGED <<land, winW, winH, dpr, now, refCurrent, phase, scene,
                         mapGroup, pixelRatio, canvasAttached,
                         rendererDisposed, arcPts, arcProg, time, clock, raf,
                         rafPending, nextHandle, renderCount, listener>>]_vars

C5_Witness ==
    /\ lastOp = "resize"
    /\ <<winW, winH>> = <<2, 1>>
    /\ camera.left = Whole(-360)
    /\ camera.right = Whole(360)
    /\ camera.top = Whole(90)
    /\ camera.bottom = Whole(-90)

\* C6: the arc has exactly 161 samples and 161 progress values; the
\* progress of sample i is i / 160, strictly increasing from 0 to 1.
C6_ArcSamples ==
    phase \in {"mounted", "torn"} =>
        /\ Len(arcPts) = 161
        /\ Len(arcProg) = 161
        /\ \A i \in 0..160 : arcProg[i + 1][1] * 160 = i * arcProg[i + 1][2]
        /\ \A i \in 1..160 : FLess(arcProg[i], arcProg[i + 1])
        /\ arcProg[1] = Whole(0)
        /\ arcProg[161] = Whole(1)

C6_Witness ==
    /\ phase = "mounted"
    /\ Len(arcPts) = 161
    /\ arcProg[81] = Half
    /\ arcPts[81].x = Whole(65)

\* C7: the time uniform is (elapsed * 0.25) mod 1 for the elapsed time the
\* clock gave last, and it lies in [0, 1), in every state.
C7_TimeWrapped ==
    /\ 0 <= time[1]
    /\ time[1] < time[2]
    /\ time[1] * 4 = (clock.elapsedTime % 4) * time[2]

C7_Witness ==
    /\ lastOp = "animate"
    /\ clock.elapsedTime = 5
    /\ time = Quarter

\* C9: while mounted exactly one frame request is pending and raf holds its
\* handle; a fired request makes animate render once and issue one new
\* request, and nothing else renders.
C9_OneFramePending ==
    [][/\ phase' = "mounted" => rafPending' = {raf'}
       /\ (phase = "mounted" /\ phase' = "mounted" /\ rafPending' # rafPending) =>
             /\ renderCount' = renderCount + 1
             /\ Cardinality(rafPending') = 1
             /\ rafPending' \cap rafPending = {}
       /\ (phase = "mounted" /\ renderCount' # renderCount) =>
             rafPending' # rafPending]_vars

C9_Witness ==
    /\ phase = "mounted"
    /\ lastOp = "resize"
    /\ renderCount = 3
    /\ raf = 3
    /\ rafPending = {3}

\* C10: after the resize handler ran, the camera's left and right and the
\* renderer's size are what a mount in the window of that moment computes,
\* whatever came before; and a tick changes neither.
C10_ViewportFromWindowOnly ==
    [][/\ ResizeHandled =>
             /\ camera'.left = MountCamera(winW', winH').left
             /\ camera'.right = MountCamera(winW', winH').right
             /\ projMatrix' = ProjectionOf(MountCamera(winW', winH'))
             /\ rendererSize' = <<winW', winH'>>
       /\ (phase = "mounted" /\ renderCount' # renderCount) =>
             UNCHANGED <<camera, projMatrix, rendererSize>>]_vars

C10_Witness ==
    /\ lastOp = "resize"
    /\ renderCount >= 2
    /\ <<winW, winH>> = <<1, 2>>
    /\ rendererSize = <<1, 2>>
    /\ camera = MountCamera(1, 2)
====
